---- MODULE Spec2Model ----
(***************************************************************************)
(* A model of three notebooks of the Quantum_Machine_Learning repository:  *)
(*   - qiskit_version/05_Gate-Model_Quantum_Computing (Bell circuit),       *)
(*   - qiskit_version/07_Variational_Circuits (QAOA),                       *)
(*   - coding_assignments/08_Sampling_a_Thermal_State (Ising sampling and   *)
(*     thermal state preparation).                                          *)
(* Every notebook is a sequence of cells; a cell is one action.  The three  *)
(* notebooks run in separate kernels, so each has its own specification     *)
(* and leaves the variables of the others alone.                            *)
(* Numbers: couplings and energies are in tenths (0.1 is 1), amplitudes of  *)
(* the two-qubit state vector are integers with the common factor           *)
(* (1/sqrt 2)^k left out.  The amplitudes of the QAOA circuits and of the   *)
(* thermal state are exact: integer combinations of powers of exp(i*pi/8),  *)
(* and polynomials in exp(-1) with Gaussian integer coefficients.           *)
(***************************************************************************)
EXTENDS Integers, Sequences, FiniteSets, TLC

VARIABLES
    \* 05_Gate-Model_Quantum_Computing
    g_pc,           \* the cell the gate-model notebook has executed last
    g_circuit,      \* circuit: the sequence of instructions of QuantumCircuit(q, c)
    g_done,         \* shots the qasm simulator has run
    counts,         \* job.result().get_counts(circuit): outcome label -> count
    \* 07_Variational_Circuits
    q_pc, n_qubits, Hm, Hc, p, beta, gamma, circuit_init, circuit,
    beta_gamma,     \* the global beta_gamma: np.concatenate([beta, gamma])
    eval_arg,       \* the argument of the last call of evaluate_circuit
    eval_circuit,   \* the circuit that call built
    nfev,           \* calls of evaluate_circuit made by minimize
    eval_value,     \* the value that call returned
    result,         \* the point x the optimizer holds and its value fun
    \* 08_Sampling_a_Thermal_State, exercises 1 and 2
    t_pc, h, J, model, energies_low, energies_high,
    \* 08_Sampling_a_Thermal_State, exercise 3
    x_pc, x_n_qubits, x_beta, x_circuit, x_i,
    \* 08_Sampling_a_Thermal_State, exercise 4
    dm,             \* dm = CircuitStateFn(circuit).to_density_matrix()
    traced          \* the value of partial_trace(dm, [1])

gateVars == <<g_pc, g_circuit, g_done, counts>>
qaoaVars == <<q_pc, n_qubits, Hm, Hc, p, beta, gamma, circuit_init, circuit,
              beta_gamma, eval_arg, eval_circuit, nfev, eval_value, result>>
isingVars == <<t_pc, h, J, model, energies_low, energies_high>>
prepVars == <<x_pc, x_n_qubits, x_beta, x_circuit, x_i, dm, traced>>
vars == <<gateVars, qaoaVars, isingVars, prepVars>>

\* What a cell of one notebook leaves alone: the other notebooks.
notGate == <<qaoaVars, isingVars, prepVars>>
notQaoa == <<gateVars, isingVars, prepVars>>
notIsing == <<gateVars, qaoaVars, prepVars>>
notPrep == <<gateVars, qaoaVars, isingVars>>

None == "None"

\* A notebook whose kernel has not been started.
GateIdle ==
    /\ g_pc = "off" /\ g_circuit = <<>> /\ g_done = 0 /\ counts = <<>>
QaoaIdle ==
    /\ q_pc = "off" /\ n_qubits = 0 /\ Hm = None /\ Hc = None /\ p = 0
    /\ beta = <<>> /\ gamma = <<>> /\ circuit_init = None /\ circuit = None
    /\ beta_gamma = None /\ eval_arg = None /\ eval_circuit = None /\ nfev = 0
    /\ eval_value = None /\ result = None
IsingIdle ==
    /\ t_pc = "off" /\ h = None /\ J = None /\ model = None
    /\ energies_low = None /\ energies_high = None
PrepIdle ==
    /\ x_pc = "off" /\ x_n_qubits = 0 /\ x_beta = 0 /\ x_circuit = None /\ x_i = 0
    /\ dm = None /\ traced = None

----------------------------------------------------------------------------
(* 05_Gate-Model_Quantum_Computing                                          *)

\* q = QuantumRegister(2); c = ClassicalRegister(2)
GateQubits == 2
\* execute(circuit, backend, shots=100)
shots == 100

RECURSIVE Pow2(_)
Pow2(k) == IF k = 0 THEN 1 ELSE 2 * Pow2(k - 1)
BitOf(b, k) == (b \div Pow2(k)) % 2
SetBit(b, k, v) == b - BitOf(b, k) * Pow2(k) + v * Pow2(k)
Basis(n) == 0 .. (Pow2(n) - 1)

\* All registers are initialized in |0>.
ZeroState(n) == [b \in Basis(n) |-> IF b = 0 THEN 1 ELSE 0]
ZeroBits(n) == [k \in 0 .. (n - 1) |-> 0]

\* The Hadamard gate on qubit k (times sqrt 2).
ApplyH(psi, k) ==
    [b \in DOMAIN psi |->
        IF BitOf(b, k) = 0
        THEN psi[SetBit(b, k, 0)] + psi[SetBit(b, k, 1)]
        ELSE psi[SetBit(b, k, 0)] - psi[SetBit(b, k, 1)]]

\* The controlled X gate: flips qubit t of the basis states whose qubit c is 1.
ApplyCX(psi, c, t) ==
    [b \in DOMAIN psi |->
        IF BitOf(b, c) = 1 THEN psi[SetBit(b, t, 1 - BitOf(b, t))] ELSE psi[b]]

\* Measuring qubit k with result m: the projection on the basis states whose
\* qubit k is m.
Project(psi, k, m) == [b \in DOMAIN psi |-> IF BitOf(b, k) = m THEN psi[b] ELSE 0]
IsZero(psi) == \A b \in DOMAIN psi : psi[b] = 0

\* One instruction on one branch <<state vector, classical register>> of a shot:
\* the branches that follow it.  A measurement has each result of non-zero
\* probability.
StepShot(br, ins) ==
    IF ins.gate = "h" THEN {<<ApplyH(br[1], ins.q[1]), br[2]>>}
    ELSE IF ins.gate = "cx" THEN {<<ApplyCX(br[1], ins.q[1], ins.q[2]), br[2]>>}
    ELSE {<<Project(br[1], ins.q[1], m), [br[2] EXCEPT ![ins.c] = m]>> :
            m \in {m \in {0, 1} : ~IsZero(Project(br[1], ins.q[1], m))}}

RECURSIVE RunShot(_, _, _)
RunShot(circ, i, branches) ==
    IF i > Len(circ) THEN branches
    ELSE RunShot(circ, i + 1, UNION {StepShot(br, circ[i]) : br \in branches})

\* The classical registers one shot of the circuit can end with.
ShotResults(circ) ==
    {br[2] : br \in RunShot(circ, 1, {<<ZeroState(GateQubits), ZeroBits(GateQubits)>>})}

\* The label of a classical register in get_counts: bit c[1] first, c[0] last.
BitChar(v) == IF v = 0 THEN "0" ELSE "1"
Label(creg) == BitChar(creg[1]) \o BitChar(creg[0])

\* BellCircuit with a slip: the control and the target of cx exchanged.
BellCircuitSwapped ==
    << [gate |-> "h", q |-> <<0>>], [gate |-> "cx", q |-> <<1, 0>>] >>

\* circuit.h(q[0]); circuit.cx(q[0], q[1])
BellCircuit ==
    << [gate |-> "h", q |-> <<0>>], [gate |-> "cx", q |-> <<0, 1>>] >>

\* circuit.measure(q, c): qubit i is measured into classical bit i.
MeasureAll ==
    [i \in 1 .. GateQubits |-> [gate |-> "measure", q |-> <<i - 1>>, c |-> i - 1]]

GateBuild ==
    /\ g_pc = "start"
    /\ g_circuit' = BellCircuit
    /\ g_pc' = "built"
    /\ UNCHANGED <<g_done, counts>>
    /\ UNCHANGED notGate

GateMeasure ==
    /\ g_pc = "built"
    /\ g_circuit' = g_circuit \o MeasureAll
    /\ g_pc' = "measured"
    /\ UNCHANGED <<g_done, counts>>
    /\ UNCHANGED notGate

\* job = execute(circuit, backend, shots=100): the simulator starts.
GateExecute ==
    /\ g_pc = "measured"
    /\ g_pc' = "running"
    /\ g_done' = 0
    /\ counts' = <<>>
    /\ UNCHANGED g_circuit
    /\ UNCHANGED notGate

Bump(cnt, key) ==
    IF key \in DOMAIN cnt THEN [cnt EXCEPT ![key] = @ + 1]
    ELSE [k \in DOMAIN cnt \cup {key} |-> IF k = key THEN 1 ELSE cnt[k]]

\* One shot of the simulator.
GateShot ==
    /\ g_pc = "running"
    /\ g_done < shots
    /\ \E creg \in ShotResults(g_circuit) :
          counts' = Bump(counts, Label(creg))
    /\ g_done' = g_done + 1
    /\ UNCHANGED <<g_pc, g_circuit>>
    /\ UNCHANGED notGate

\* plot_histogram(job.result().get_counts(circuit))
GatePlot ==
    /\ g_pc = "running"
    /\ g_done = shots
    /\ g_pc' = "plotted"
    /\ UNCHANGED <<g_circuit, g_done, counts>>
    /\ UNCHANGED notGate

GateInit ==
    /\ g_pc = "start" /\ g_circuit = <<>> /\ g_done = 0 /\ counts = <<>>
    /\ QaoaIdle /\ IsingIdle /\ PrepIdle

GateNext ==
    \/ GateBuild \/ GateMeasure \/ GateExecute \/ GateShot \/ GatePlot

SpecGate == GateInit /\ [][GateNext]_vars

\* C3: in the gate-model notebook the circuit H(q0), CX(q0, q1), measure can only
\* give the outcomes 00 and 11: no shot ever counts 01 or 10.
C3_OnlyCorrelatedOutcomes ==
    g_pc \in {"running", "plotted"} => DOMAIN counts \subseteq {"00", "11"}

\* Both outcomes have been seen when the histogram is plotted.
C3_Witness ==
    /\ g_pc = "plotted"
    /\ DOMAIN counts = {"00", "11"}
    /\ counts["00"] + counts["11"] = shots

----------------------------------------------------------------------------
(* 07_Variational_Circuits                                                  *)

\* The largest n_qubits, the largest p, the largest (discretised) angle and the
\* most calls of evaluate_circuit the optimizer makes.
MaxQubits == 3
MaxP == 2
MaxAngle == 2
MaxEvals == 2

\* np.random.uniform(0, np.pi*2, p) draws each angle from [0, 2 pi): the angles
\* are discretised to 0 .. MaxAngle, in units of pi/8.
Angles == 0 .. MaxAngle

\* Python sequences are functions on 0 .. len-1.
range(n) == 0 .. (n - 1)
len(v) == Cardinality(DOMAIN v)
concatenate(a, b) ==
    [k \in range(len(a) + len(b)) |-> IF k < len(a) THEN a[k] ELSE b[k - len(a)]]
\* v[lo:hi]
Slice(v, lo, hi) == [k \in range(hi - lo) |-> v[lo + k]]

\* np.zeros(n_qubits) and np.eye(n_qubits)
zeros(n) == [k \in range(n) |-> 0]
eye(n) == [i \in range(n) |-> [k \in range(n) |-> IF k = i THEN 1 ELSE 0]]

\* qiskit.quantum_info.Pauli(z, x), and the product of two Paulis (without
\* phase): the entrywise sum modulo 2 of the z and of the x vectors.
Pauli(z, x) == [z |-> z, x |-> x]
PauliMul(a, b) ==
    [z |-> [k \in DOMAIN a.z |-> (a.z[k] + b.z[k]) % 2],
     x |-> [k \in DOMAIN a.x |-> (a.x[k] + b.x[k]) % 2]]

\* WeightedPauliOperator(paulis): the list of [coeff, pauli] terms, and x + y:
\* a term of y whose Pauli x already holds adds its coefficient to that term,
\* another term is appended.
WeightedPauliOperator(paulis) == paulis
TermIndex(op, pauli) == {k \in 1 .. Len(op) : op[k].pauli = pauli}
AddTerm(op, t) ==
    IF TermIndex(op, t.pauli) # {}
    THEN [k \in 1 .. Len(op) |->
            IF k \in TermIndex(op, t.pauli)
            THEN [coeff |-> op[k].coeff + t.coeff, pauli |-> op[k].pauli]
            ELSE op[k]]
    ELSE Append(op, [coeff |-> 0 + t.coeff, pauli |-> t.pauli])
RECURSIVE AddFrom(_, _, _)
AddFrom(op, other, k) ==
    IF k > Len(other) THEN op ELSE AddFrom(AddTerm(op, other[k]), other, k + 1)
WpoAdd(x, y) == AddFrom(x, y, 1)

\* reduce(lambda x,y: x+y, items) for operators; items is not empty.
RECURSIVE ReduceAdd(_, _, _)
ReduceAdd(acc, items, k) ==
    IF k > Len(items) THEN acc ELSE ReduceAdd(WpoAdd(acc, items[k]), items, k + 1)
reduce_add(items) == ReduceAdd(items[1], items, 2)

\* pauli_x with a slip: the row of the identity matrix is taken one qubit off.
pauli_x_shifted(qubit, coeff) ==
    WeightedPauliOperator(
        << [coeff |-> coeff,
            pauli |-> Pauli(zeros(n_qubits'), eye(n_qubits')[(qubit + 1) % n_qubits'])] >>)

\* def pauli_x(qubit, coeff), read when the cell that sets n_qubits runs
pauli_x(qubit, coeff) ==
    WeightedPauliOperator(
        << [coeff |-> coeff, pauli |-> Pauli(zeros(n_qubits'), eye(n_qubits')[qubit])] >>)

\* product_pauli_z with a slip: the second factor is left out.
product_pauli_z_single(q1, q2, coeff) ==
    WeightedPauliOperator(
        << [coeff |-> coeff, pauli |-> Pauli(eye(n_qubits)[q1], zeros(n_qubits))] >>)

\* def product_pauli_z(q1, q2, coeff)
product_pauli_z(q1, q2, coeff) ==
    WeightedPauliOperator(
        << [coeff |-> coeff,
            pauli |-> PauliMul(Pauli(eye(n_qubits)[q1], zeros(n_qubits)),
                               Pauli(eye(n_qubits)[q2], zeros(n_qubits)))] >>)

\* J = np.array([[0,1],[0,0]])
Jmat == [i \in range(2) |-> [j \in range(2) |-> IF i = 0 /\ j = 1 THEN 1 ELSE 0]]

\* itertools.product(range(n), repeat=2): the ordered pairs, first index slowest.
product2(n) == [k \in 1 .. (n * n) |-> <<(k - 1) \div n, (k - 1) % n>>]

\* n_qubits = 2; Hm = reduce(lambda x,y: x+y, [pauli_x(i, -1) for i in range(n_qubits)])
\* The number of qubits is an input here: 1 .. MaxQubits.
DefineHm ==
    /\ q_pc = "start"
    /\ \E n \in 1 .. MaxQubits : n_qubits' = n
    /\ Hm' = reduce_add([k \in 1 .. n_qubits' |-> pauli_x(k - 1, -1)])
    /\ q_pc' = "Hm"
    /\ UNCHANGED <<Hc, p, beta, gamma, circuit_init, circuit, beta_gamma,
                   eval_arg, eval_circuit, nfev, eval_value, result>>
    /\ UNCHANGED notQaoa

\* Hc = reduce(lambda x,y: x+y, [product_pauli_z(i,j, -J[i,j]) for i,j in
\*                               itertools.product(range(n_qubits), repeat=2)])
DefineHc ==
    /\ q_pc = "Hm"
    /\ n_qubits <= 2
    /\ Hc' = reduce_add([k \in 1 .. (n_qubits * n_qubits) |->
                product_pauli_z(product2(n_qubits)[k][1], product2(n_qubits)[k][2],
                                -Jmat[product2(n_qubits)[k][1]][product2(n_qubits)[k][2]])])
    /\ q_pc' = "Hc"
    /\ UNCHANGED <<n_qubits, Hm, p, beta, gamma, circuit_init, circuit, beta_gamma,
                   eval_arg, eval_circuit, nfev, eval_value, result>>
    /\ UNCHANGED notQaoa

\* J[i,j] with an index 2 or more raises IndexError: the cell fails.
DefineHcIndexError ==
    /\ q_pc = "Hm"
    /\ n_qubits > 2
    /\ q_pc' = "IndexError"
    /\ UNCHANGED <<n_qubits, Hm, Hc, p, beta, gamma, circuit_init, circuit,
                   beta_gamma, eval_arg, eval_circuit, nfev, eval_value, result>>
    /\ UNCHANGED notQaoa

\* p = 1; beta = np.random.uniform(0, np.pi*2, p); gamma = np.random.uniform(...)
\* The number of steps is an input here: 1 .. MaxP.
SetParameters ==
    /\ q_pc = "Hc"
    /\ \E steps \in 1 .. MaxP : p' = steps
    /\ beta' \in [range(p') -> Angles]
    /\ gamma' \in [range(p') -> Angles]
    /\ q_pc' = "params"
    /\ UNCHANGED <<n_qubits, Hm, Hc, circuit_init, circuit, beta_gamma,
                   eval_arg, eval_circuit, nfev, eval_value, result>>
    /\ UNCHANGED notQaoa

\* init_state_vect = [1 for i in range(2**n_qubits)]
\* init_state = Custom(n_qubits, state_vector=init_state_vect)
\* circuit_init = init_state.construct_circuit('circuit', qr)
PrepareInit ==
    /\ q_pc = "params"
    /\ circuit_init' =
          << [op |-> "prepare", state_vector |-> [i \in Basis(n_qubits) |-> 1]] >>
    /\ q_pc' = "init"
    /\ UNCHANGED <<n_qubits, Hm, Hc, p, beta, gamma, circuit, beta_gamma,
                   eval_arg, eval_circuit, nfev, eval_value, result>>
    /\ UNCHANGED notQaoa

\* def evolve(hamiltonian, angle, quantum_registers): the circuit of one evolution
evolve(hamiltonian, angle) ==
    << [op |-> "evolve", ham |-> hamiltonian, angle |-> angle] >>

\* reduce(lambda x,y: x+y, chunks) for circuits; chunks is not empty.
RECURSIVE ReduceCat(_, _, _)
ReduceCat(acc, chunks, k) ==
    IF k > Len(chunks) THEN acc ELSE ReduceCat(acc \o chunks[k], chunks, k + 1)
reduce_cat(chunks) == ReduceCat(chunks[1], chunks, 2)

\* create_circuit with a slip: the initial circuit is appended after the
\* evolutions.
create_circuit_init_last(beta_, gamma_) ==
    reduce_cat([k \in 1 .. p |->
        evolve(Hc, beta_[k - 1]) \o evolve(Hm, gamma_[k - 1])]) \o circuit_init

\* def create_circuit(beta, gamma)
create_circuit(beta_, gamma_) ==
    circuit_init \o reduce_cat([k \in 1 .. p |->
        evolve(Hc, beta_[k - 1]) \o evolve(Hm, gamma_[k - 1])])

\* beta_gamma = np.concatenate([beta, gamma]); n = len(beta_gamma)//2
\* circuit = create_circuit(beta_gamma[:n], beta_gamma[n:])
CreateCircuit ==
    /\ q_pc = "init"
    /\ beta_gamma' = concatenate(beta, gamma)
    /\ circuit' = create_circuit(Slice(beta_gamma', 0, len(beta_gamma') \div 2),
                                 Slice(beta_gamma', len(beta_gamma') \div 2,
                                       len(beta_gamma')))
    /\ q_pc' = "circuit"
    /\ UNCHANGED <<n_qubits, Hm, Hc, p, beta, gamma, circuit_init, eval_arg, eval_circuit, nfev, eval_value, result>>
    /\ UNCHANGED notQaoa

\* def evaluate_circuit(beta_gamma): the circuit the call builds
evaluate_circuit(x) ==
    create_circuit(Slice(x, 0, len(x) \div 2), Slice(x, len(x) \div 2, len(x)))

\* Numbers of the simulation.  With the angles multiples of pi/8 every
\* amplitude is a sum of powers of w = exp(i*pi/8) with integer coefficients,
\* over a power of 2.  A number of Z[w] is the function from 0 .. 7 to the
\* coefficients of w^0 .. w^7 (w^8 = -1); the representation is unique.
\* f @@ <<>> is f; written so, the function is computed once, not at each
\* application.
Once(f) == f @@ <<>>
ZZero == Once([k \in 0 .. 7 |-> 0])
ZInt(n) == Once([k \in 0 .. 7 |-> IF k = 0 THEN n ELSE 0])
ZAdd(a, b) == Once([k \in 0 .. 7 |-> a[k] + b[k]])
ZSub(a, b) == Once([k \in 0 .. 7 |-> a[k] - b[k]])
ZScale(n, a) == Once([k \in 0 .. 7 |-> n * a[k]])
\* a * w^s
ZShift(a, s) ==
    Once([k \in 0 .. 7 |->
        LET j == (k - s) % 16 IN IF j < 8 THEN a[j] ELSE 0 - a[j - 8]])
RECURSIVE ZMulFrom(_, _, _)
ZMulFrom(a, b, j) ==
    IF j > 7 THEN ZZero ELSE ZAdd(ZScale(b[j], ZShift(a, j)), ZMulFrom(a, b, j + 1))
ZMul(a, b) == ZMulFrom(a, b, 0)
\* the complex conjugate: w^k goes to w^(-k)
ZConj(a) == Once([k \in 0 .. 7 |-> IF k = 0 THEN a[0] ELSE 0 - a[8 - k]])
ZSqrt2 == ZSub(ZShift(ZInt(1), 2), ZShift(ZInt(1), 6))

RECURSIVE ZSum(_, _)
ZSum(f, n) == IF n = 0 THEN ZZero ELSE ZAdd(ZSum(f, n - 1), f[n - 1])
RECURSIVE ZPower(_, _)
ZPower(a, n) == IF n = 0 THEN ZInt(1) ELSE ZMul(a, ZPower(a, n - 1))

\* A state vector is amp[b] / 2^scale; common factors of 2 are cancelled.
AllEven(amp) == \A b \in DOMAIN amp : \A k \in 0 .. 7 : amp[b][k] % 2 = 0
RECURSIVE Cancel(_)
Cancel(st) ==
    IF st.scale > 0 /\ AllEven(st.amp)
    THEN Cancel([amp |-> Once([b \in DOMAIN st.amp |->
                             Once([k \in 0 .. 7 |-> st.amp[b][k] \div 2])]),
                 scale |-> st.scale - 1])
    ELSE st

Abs(n) == IF n < 0 THEN 0 - n ELSE n
RECURSIVE IntSum(_, _)
IntSum(f, n) == IF n = 0 THEN 0 ELSE IntSum(f, n - 1) + f[n - 1]

\* Custom with a slip: the state vector is taken as given, not normalised.
CustomRaw(n, state_vector) ==
    [amp |-> Once([b \in Basis(n) |-> ZInt(state_vector[b])]), scale |-> 0]

\* Custom(n_qubits, state_vector=init_state_vect): the vector divided by its
\* norm, which is sqrt(2)^n for the vector of 2^n ones.
Custom(n, state_vector) ==
    Cancel([amp |-> Once([b \in Basis(n) |->
                             ZMul(ZInt(state_vector[b]), ZPower(ZSqrt2, n))]),
            scale |-> n])

\* The Pauli with vectors z and x applied to a vector: the amplitude of b comes
\* from b with the bits of x flipped, with the sign of the bits of z in b.  (No
\* term of Hm or Hc has z and x on the same qubit.)
FlipBits(b, x) ==
    IntSum([k \in DOMAIN x |-> ((BitOf(b, k) + x[k]) % 2) * Pow2(k)], len(x))
SignBits(b, z) ==
    IF IntSum([k \in DOMAIN z |-> BitOf(b, k) * z[k]], len(z)) % 2 = 0 THEN 1 ELSE -1
ApplyPauli(pauli, amp) ==
    Once([b \in DOMAIN amp |-> ZScale(SignBits(b, pauli.z), amp[FlipBits(b, pauli.x)])])

\* exp(-i * angle * coeff * P) for one term coeff * P, the angle in units of
\* pi/8: cos(f) + i sin(f) P with f = -angle*coeff, that is
\* ((w^f + w^-f) + (w^f - w^-f) P) / 2.
EvolveTerm(st, term, angle) ==
    LET f == 0 - angle * term.coeff
        pa == ApplyPauli(term.pauli, st.amp)
    IN  Cancel([amp |-> Once([b \in DOMAIN st.amp |->
                    ZAdd(ZAdd(ZShift(st.amp[b], f), ZShift(st.amp[b], 0 - f)),
                         ZSub(ZShift(pa[b], f), ZShift(pa[b], 0 - f)))]),
                scale |-> st.scale + 1])

\* hamiltonian.evolve(None, angle, 1, ...): exp(-i * angle * hamiltonian).  The
\* terms of Hm commute with one another, and so do those of Hc, so the
\* expansion into one factor per term is exact.
\* (A scale is never negative: the test on it makes the vector of one step
\* known before the next step starts.)
RECURSIVE EvolveFrom(_, _, _, _)
EvolveFrom(st, ham, angle, k) ==
    IF k > Len(ham) THEN st
    ELSE LET next == EvolveTerm(st, ham[k], angle)
         IN  IF next.scale < 0 THEN next ELSE EvolveFrom(next, ham, angle, k + 1)

\* operator applied to a vector: the sum of coeff * P over the terms
ApplyOperator(ham, amp) ==
    Once([b \in DOMAIN amp |->
        ZSum([k \in 0 .. (Len(ham) - 1) |->
                 ZScale(ham[k + 1].coeff, ApplyPauli(ham[k + 1].pauli, amp)[b])],
             Len(ham))])

\* execute(circuit, backend).result().get_statevector(): the operations of the
\* circuit in order.  With d > 0 the result is the derivative of the state
\* vector by the angle of operation d: -i * hamiltonian follows that operation.
ApplyOp(st, o) ==
    IF o.op = "prepare" THEN Custom(n_qubits, o.state_vector)
    ELSE EvolveFrom(st, o.ham, o.angle, 1)
RECURSIVE RunOps(_, _, _, _)
RunOps(st, ops, k, d) ==
    IF k > Len(ops) THEN st
    ELSE LET after == ApplyOp(st, ops[k])
             next == IF k = d
                     THEN [amp |-> Once([b \in DOMAIN after.amp |->
                                     ZShift(ApplyOperator(ops[k].ham, after.amp)[b], 12)]),
                           scale |-> after.scale]
                     ELSE after
         IN  IF next.scale < 0 THEN next ELSE RunOps(next, ops, k + 1, d)
get_statevector(circ) == RunOps([amp |-> <<>>, scale |-> 0], circ, 1, 0)
d_statevector(circ, d) == RunOps([amp |-> <<>>, scale |-> 0], circ, 1, d)

\* A real number num / den, num a real number of Z[w] and den a power of 2,
\* in lowest terms.
RECURSIVE Lowest(_, _)
Lowest(num, den) ==
    IF den > 1 /\ \A k \in 0 .. 7 : num[k] % 2 = 0
    THEN Lowest(Once([k \in 0 .. 7 |-> num[k] \div 2]), den \div 2)
    ELSE [num |-> num, den |-> den]
Real(n) == [num |-> ZInt(n), den |-> 1]

\* <a| operator |b> * 2^(a.scale + b.scale)
Bracket(a, operator, b) ==
    LET ob == ApplyOperator(operator, b.amp)
    IN  ZSum([k \in 0 .. (Cardinality(DOMAIN a.amp) - 1) |->
                 ZMul(ZConj(a.amp[k]), ob[k])], Cardinality(DOMAIN a.amp))

\* np.real(operator.evaluate_with_statevector(vector)[0]): the real part of
\* <vector| operator |vector>
evaluate_with_statevector(operator, st) ==
    LET e == Bracket(st, operator, st)
    IN  Lowest(ZAdd(e, ZConj(e)), 2 * Pow2(2 * st.scale))

\* The value evaluate_circuit returns for the circuit it built.
evaluate_value(circ) == evaluate_with_statevector(Hc, get_statevector(circ))

\* The sign of a real number of Z[w]: 0 for zero; otherwise that of
\* sum num[k] * cos(k*pi/8), computed with the cosines in thousandths, each
\* rounded by less than 1/2, so that the sign is certain beyond the sum of the
\* |num[k]|; 2 when it is not.
Cos1000 == <<1000, 924, 707, 383, 0, -383, -707, -924>>
ZSign(a) ==
    LET approx == IntSum([k \in 0 .. 7 |-> a[k] * Cos1000[k + 1]], 8)
        err == IntSum([k \in 0 .. 7 |-> Abs(a[k])], 8)
    IN  IF a = ZZero THEN 0
        ELSE IF approx > err THEN 1
        ELSE IF approx < 0 - err THEN -1
        ELSE 2
\* the sign of u - v
Compare(u, v) == ZSign(ZSub(ZScale(v.den, u.num), ZScale(u.den, v.num)))

\* The derivative of the value by the angle of operation d is
\* 2 Re <psi| Hc |d psi>; it is zero exactly when this number of Z[w] is.
Derivative(circ, d) ==
    LET e == Bracket(get_statevector(circ), Hc, d_statevector(circ, d))
    IN  ZAdd(e, ZConj(e))
\* Each parameter is the angle of one evolution of the circuit: the gradient
\* is zero when the derivative by each of them is.
Stationary(circ) ==
    \A d \in 1 .. Len(circ) : circ[d].op = "evolve" => Derivative(circ, d) = ZZero

\* result = minimize(evaluate_circuit, np.concatenate([beta, gamma]), ...):
\* the first call of evaluate_circuit is at the start point.
MinimizeStart ==
    /\ q_pc = "circuit"
    /\ eval_arg' = concatenate(beta, gamma)
    /\ eval_circuit' = evaluate_circuit(eval_arg')
    /\ eval_value' = evaluate_value(eval_circuit')
    /\ result' = [x |-> eval_arg', fun |-> eval_value']
    /\ nfev' = 1
    /\ q_pc' = "minimizing"
    /\ UNCHANGED <<n_qubits, Hm, Hc, p, beta, gamma, circuit_init, circuit, beta_gamma>>
    /\ UNCHANGED notQaoa

\* While the gradient at the point it holds is not zero, L-BFGS-B calls
\* evaluate_circuit at a further point it chooses; its line search moves to a
\* point only if the value there is lower.
MinimizeStep ==
    /\ q_pc = "minimizing"
    /\ nfev < MaxEvals
    /\ ~Stationary(evaluate_circuit(result.x))
    /\ eval_arg' \in [range(2 * p) -> Angles]
    /\ eval_circuit' = evaluate_circuit(eval_arg')
    /\ eval_value' = evaluate_value(eval_circuit')
    /\ \/ result' = result
       \/ /\ Compare(eval_value', result.fun) = -1
          /\ result' = [x |-> eval_arg', fun |-> eval_value']
    /\ nfev' = nfev + 1
    /\ UNCHANGED <<q_pc, n_qubits, Hm, Hc, p, beta, gamma, circuit_init, circuit,
                   beta_gamma>>
    /\ UNCHANGED notQaoa

\* minimize returns when the gradient at the point it holds is zero.
MinimizeDone ==
    /\ q_pc = "minimizing"
    /\ Stationary(evaluate_circuit(result.x))
    /\ q_pc' = "result"
    /\ UNCHANGED <<n_qubits, Hm, Hc, p, beta, gamma, circuit_init, circuit,
                   beta_gamma, eval_arg, eval_circuit, nfev, eval_value, result>>
    /\ UNCHANGED notQaoa

QaoaInit ==
    /\ q_pc = "start" /\ n_qubits = 0 /\ Hm = None /\ Hc = None /\ p = 0
    /\ beta = <<>> /\ gamma = <<>> /\ circuit_init = None /\ circuit = None
    /\ beta_gamma = None /\ eval_arg = None /\ eval_circuit = None /\ nfev = 0
    /\ eval_value = None /\ result = None
    /\ GateIdle /\ IsingIdle /\ PrepIdle

QaoaNext ==
    \/ DefineHm \/ DefineHc \/ DefineHcIndexError \/ SetParameters \/ PrepareInit
    \/ CreateCircuit \/ MinimizeStart \/ MinimizeStep \/ MinimizeDone

SpecQaoa == QaoaInit /\ [][QaoaNext]_vars

\* The notebook up to the cell that builds the circuit, without the optimisation.
QaoaBuildNext ==
    \/ DefineHm \/ DefineHc \/ DefineHcIndexError \/ SetParameters \/ PrepareInit
    \/ CreateCircuit

SpecQaoaBuild == QaoaInit /\ [][QaoaBuildNext]_vars

\* The notebook as it stands, n_qubits = 2 and p = 1, with the optimisation:
\* only the angles drawn and the points the optimizer visits vary.
DefineHm2 == DefineHm /\ n_qubits' = 2
SetParameters1 == SetParameters /\ p' = 1
QaoaOptNext ==
    \/ DefineHm2 \/ DefineHc \/ SetParameters1 \/ PrepareInit \/ CreateCircuit
    \/ MinimizeStart \/ MinimizeStep \/ MinimizeDone

SpecQaoaOpt == QaoaInit /\ [][QaoaOptNext]_vars

HcDefined == q_pc \in {"Hc", "params", "init", "circuit", "minimizing", "result"}
HmDefined == q_pc \notin {"off", "start"}

\* The places in the circuit of the two evolutions of time step i.
ChunkPos(i) == {Len(circuit_init) + 2 * i + 1, Len(circuit_init) + 2 * i + 2}

\* C4: in every time step i of the circuit built by create_circuit the mixing
\* Hamiltonian Hm is evolved with the angle beta[i] and the cost Hamiltonian Hc
\* with the angle gamma[i].
C4_MixerBetaCostGamma ==
    q_pc = "circuit" =>
        \A i \in range(p) : \A k \in ChunkPos(i) :
            /\ circuit[k].ham = Hm => circuit[k].angle = beta[i]
            /\ circuit[k].ham = Hc => circuit[k].angle = gamma[i]

\* C5: the circuit of create_circuit(beta, gamma) is the initial-state preparation,
\* once and first, followed by exactly p chunks in the order i = 0 .. p-1, each
\* chunk two evolutions, one of Hc and one of Hm, with the angles of step i.
C5_PrepareThenChunks ==
    q_pc = "circuit" =>
        /\ Len(circuit) = Len(circuit_init) + 2 * p
        /\ SubSeq(circuit, 1, Len(circuit_init)) = circuit_init
        /\ \A k \in 1 .. Len(circuit) :
              (circuit[k].op = "prepare") = (k <= Len(circuit_init))
        /\ Len(circuit_init) = 1
        /\ \A i \in range(p) :
              /\ \A k \in ChunkPos(i) : circuit[k].op = "evolve"
              /\ {circuit[k].ham : k \in ChunkPos(i)} = {Hc, Hm}
              /\ {circuit[k].angle : k \in ChunkPos(i)} = {beta[i], gamma[i]}

\* A circuit of two steps whose angles tell the steps apart.
C5_Witness ==
    /\ q_pc = "circuit"
    /\ p = 2
    /\ {beta[0], gamma[0]} \cap {beta[1], gamma[1]} = {}
    /\ Len(circuit) = 5

\* C6: evaluate_circuit takes the vector gamma_beta, the gamma entries first and
\* the beta entries second, and evaluates the circuit built from its two halves.
C6_GammaFirst ==
    (q_pc = "minimizing" /\ nfev = 1) =>
        /\ eval_arg = concatenate(gamma, beta)
        /\ eval_circuit = create_circuit(Slice(eval_arg, 0, p), Slice(eval_arg, p, 2 * p))

\* The terms of an operator whose coefficient is not zero.
NonZeroTerms(op) == {k \in 1 .. Len(op) : op[k].coeff # 0}

\* C7: with two qubits and J = [[0,1],[0,0]] the cost Hamiltonian Hc is -Z x Z:
\* its only term with a non-zero coefficient is Z on both qubits, coefficient -1.
C7_HcIsMinusZZ ==
    (HcDefined /\ n_qubits = 2) =>
        /\ Cardinality(NonZeroTerms(Hc)) = 1
        /\ \A k \in NonZeroTerms(Hc) :
              /\ Hc[k].coeff = -1
              /\ \A qb \in range(n_qubits) :
                    Hc[k].pauli.z[qb] = 1 /\ Hc[k].pauli.x[qb] = 0

\* Hc of two qubits after the sum over the four ordered pairs: the pairs (0,0)
\* and (1,1) left an identity term of coefficient 0 beside the Z x Z term.
C7_Witness ==
    /\ q_pc = "Hc"
    /\ n_qubits = 2
    /\ Len(Hc) = 2
    /\ NonZeroTerms(Hc) # {}

\* C8: the mixing Hamiltonian Hm is -sum_i X_i: exactly n_qubits terms, term i
\* with coefficient -1, X on qubit i and the identity on every other qubit.
C8_HmIsMinusSumX ==
    HmDefined =>
        /\ Len(Hm) = n_qubits
        /\ \A i \in range(n_qubits) :
              /\ Hm[i + 1].coeff = -1
              /\ \A qb \in range(n_qubits) :
                    /\ Hm[i + 1].pauli.x[qb] = (IF qb = i THEN 1 ELSE 0)
                    /\ Hm[i + 1].pauli.z[qb] = 0

\* Hm over two qubits: the terms IX and XI.
C8_Witness ==
    /\ q_pc = "Hm"
    /\ n_qubits = 2
    /\ Len(Hm) = 2
    /\ Hm[1].pauli.x = [k \in range(2) |-> IF k = 0 THEN 1 ELSE 0]
    /\ Hm[2].pauli.x = [k \in range(2) |-> IF k = 1 THEN 1 ELSE 0]

----------------------------------------------------------------------------
(* 08_Sampling_a_Thermal_State, exercises 1 and 2                           *)

\* n_spins = 5
n_spins == 5

\* np.random.choice(0.1*np.arange(-5, 6), 1)[0] draws one of -0.5, -0.4 .. 0.5,
\* in tenths -5 .. 5.  Where the draws are inputs they are taken from
\* -CoeffMax .. CoeffMax, and at most MaxCouplings draws of np.random.random()
\* are below .25.
CoeffMax == 1
MaxCouplings == 1
Coeffs == -CoeffMax .. CoeffMax

\* num_reads=n_samples with n_samples = 100, and the num_sweeps of the sampler
\* (1000 when not given): the model makes MaxReads reads of MaxSweeps sweeps.
MaxReads == 2
MaxSweeps == 2

\* itertools.combinations(h, 2): the pairs u < v of keys of h.
combinations2(keys) == {<<u, v>> : u \in keys, v \in keys} \cap {pr \in keys \X keys : pr[1] < pr[2]}

\* dimod.BinaryQuadraticModel(linear, quadratic, offset, vartype): its variables
\* are those of the linear and of the quadratic terms.
BinaryQuadraticModel(linear, quadratic, offset, vartype) ==
    [linear |-> linear, quadratic |-> quadratic, offset |-> offset, vartype |-> vartype,
     variables |-> DOMAIN linear \cup {pr[1] : pr \in DOMAIN quadratic}
                                 \cup {pr[2] : pr \in DOMAIN quadratic}]

\* The draws of the cell of exercise 1: hd[v] is the value drawn for spin v, and
\* jd is defined on the pairs whose np.random.random() was below .25, with the
\* value drawn for that pair.
\* h = {v: np.random.choice(...) for v in range(n_spins)}
h_of(hd) == [v \in range(n_spins) |-> hd[v]]
\* for u, v in itertools.combinations(h, 2): if np.random.random() < .25: J[(u, v)] = ...
J_of(hd, jd) == [pr \in combinations2(DOMAIN h_of(hd)) \cap DOMAIN jd |-> jd[pr]]

\* model_of with a slip: a binary model instead of a spin system.
model_of_binary(hd, jd) ==
    BinaryQuadraticModel(h_of(hd), J_of(hd, jd), 0, "BINARY")

\* model = dimod.BinaryQuadraticModel(h, J, 0.0, dimod.SPIN)
model_of(hd, jd) ==
    BinaryQuadraticModel(h_of(hd), J_of(hd, jd), 0, "SPIN")

\* The draws np.random.seed(12) fixes, as the notebook shows J and h after the cell:
\* J = {(0,1): 0.1, (0,2): 0.0, (0,3): -0.3, (3,4): -0.4},
\* h = {0: 0.1, 1: -0.4, 2: -0.3, 3: -0.2, 4: -0.2}.
Seed12_hd == [v \in range(n_spins) |->
    IF v = 0 THEN 1 ELSE IF v = 1 THEN -4 ELSE IF v = 2 THEN -3 ELSE -2]
Seed12_jd == [pr \in {<<0, 1>>, <<0, 2>>, <<0, 3>>, <<3, 4>>} |->
    IF pr = <<0, 1>> THEN 1 ELSE IF pr = <<0, 2>> THEN 0
    ELSE IF pr = <<0, 3>> THEN -3 ELSE -4]

\* The cell of exercise 1, as the seed of the notebook runs it.
Exercise1 ==
    /\ t_pc = "start"
    /\ h' = h_of(Seed12_hd)
    /\ J' = J_of(Seed12_hd, Seed12_jd)
    /\ model' = model_of(Seed12_hd, Seed12_jd)
    /\ t_pc' = "model"
    /\ UNCHANGED <<energies_low, energies_high>>
    /\ UNCHANGED notIsing

\* The cell of exercise 1, whatever the random draws.
Exercise1AnyDraws ==
    /\ t_pc = "start"
    /\ \E hd \in [range(n_spins) -> Coeffs] :
       \E keys \in {K \in SUBSET combinations2(range(n_spins)) :
                        Cardinality(K) <= MaxCouplings} :
       \E jd \in [keys -> Coeffs] :
          /\ h' = h_of(hd)
          /\ J' = J_of(hd, jd)
          /\ model' = model_of(hd, jd)
    /\ t_pc' = "model"
    /\ UNCHANGED <<energies_low, energies_high>>
    /\ UNCHANGED notIsing

\* assert model.vartype == dimod.SPIN; assert len(model.variables) == 5
GradeExercise1 ==
    /\ t_pc = "model"
    /\ t_pc' = IF model.vartype = "SPIN" /\ Cardinality(model.variables) = 5
               THEN "graded1" ELSE "AssertionError"
    /\ UNCHANGED <<h, J, model, energies_low, energies_high>>
    /\ UNCHANGED notIsing

\* The spin configurations of a model, and the Ising energy of one (in tenths).
Configs(m) == [m.variables -> {-1, 1}]
RECURSIVE SumOver(_, _)
SumOver(f, keys) ==
    IF keys = {} THEN 0
    ELSE LET k == CHOOSE x \in keys : TRUE IN f[k] + SumOver(f, keys \ {k})
ising_energy(m, s) ==
    m.offset
    + SumOver([v \in DOMAIN m.linear |-> m.linear[v] * s[v]], DOMAIN m.linear)
    + SumOver([pr \in DOMAIN m.quadratic |-> m.quadratic[pr] * s[pr[1]] * s[pr[2]]],
              DOMAIN m.quadratic)

\* The change of energy when spin v of s is flipped.
energy_diff(m, s, v) ==
    -2 * s[v] * (m.linear[v]
        + SumOver([pr \in DOMAIN m.quadratic |->
                     IF pr[1] = v THEN m.quadratic[pr] * s[pr[2]]
                     ELSE IF pr[2] = v THEN m.quadratic[pr] * s[pr[1]] ELSE 0],
                  DOMAIN m.quadratic))

\* The sampler flips spin v when log(random.uniform(0, 1)) < -beta * energy_diff.
\* LogDraws are the values -10000 * log(r) of two draws r: r = 0.9999 and
\* r = 0.5.  Beta is 1000 * beta and the energy is in tenths, so their product
\* is 10000 * beta * energy_diff.
LogDraws == {1, 6931}
\* sampler.sample(model, [1/0.01, 1/0.01], ...) and sampler.sample(model, [1/100., 1/100.], ...)
BetaLow == 100000
BetaHigh == 10

Flip(s, v) == [s EXCEPT ![v] = -s[v]]
UpdateSpin(m, betaK, S, v) ==
    {IF draw > betaK * energy_diff(m, s, v) THEN Flip(s, v) ELSE s :
        s \in S, draw \in LogDraws}

\* The update rule is that of dimod's reference SimulatedAnnealingSampler, which
\* the notebook calls.  One sweep updates every spin once (here in the order of
\* the spins); the configurations a set S can become.
RECURSIVE SweepFrom(_, _, _, _)
SweepFrom(m, betaK, S, v) ==
    IF v \notin m.variables THEN S
    ELSE SweepFrom(m, betaK, UpdateSpin(m, betaK, S, v), v + 1)
RECURSIVE Sweeps(_, _, _, _)
Sweeps(m, betaK, S, k) ==
    IF k = 0 THEN S ELSE Sweeps(m, betaK, SweepFrom(m, betaK, S, 0), k - 1)

\* One read: random initial spins, then the sweeps at constant beta (both ends of
\* beta_range are equal); the energies the read can return.
ReadEnergies(m, betaK) ==
    {ising_energy(m, s) : s \in Sweeps(m, betaK, Configs(m), MaxSweeps)}

\* sample.data() yields the reads by increasing energy.
RECURSIVE InsertSorted(_, _)
InsertSorted(seq, e) ==
    IF seq = <<>> THEN <<e>>
    ELSE IF e <= Head(seq) THEN <<e>> \o seq
    ELSE <<Head(seq)>> \o InsertSorted(Tail(seq), e)

\* n_samples = 100; sampler = dimod.SimulatedAnnealingSampler()
StartSampling ==
    /\ t_pc = "graded1"
    /\ energies_low' = <<>>
    /\ energies_high' = <<>>
    /\ t_pc' = "low"
    /\ UNCHANGED <<h, J, model>>
    /\ UNCHANGED notIsing

\* One read of sample_low.
ReadLow ==
    /\ t_pc = "low"
    /\ Len(energies_low) < MaxReads
    /\ \E e \in ReadEnergies(model, BetaLow) :
          energies_low' = InsertSorted(energies_low, e)
    /\ UNCHANGED <<t_pc, h, J, model, energies_high>>
    /\ UNCHANGED notIsing

StartHigh ==
    /\ t_pc = "low"
    /\ Len(energies_low) = MaxReads
    /\ t_pc' = "high"
    /\ UNCHANGED <<h, J, model, energies_low, energies_high>>
    /\ UNCHANGED notIsing

\* One read of sample_high.
ReadHigh ==
    /\ t_pc = "high"
    /\ Len(energies_high) < MaxReads
    /\ \E e \in ReadEnergies(model, BetaHigh) :
          energies_high' = InsertSorted(energies_high, e)
    /\ UNCHANGED <<t_pc, h, J, model, energies_low>>
    /\ UNCHANGED notIsing

EndSampling ==
    /\ t_pc = "high"
    /\ Len(energies_high) = MaxReads
    /\ t_pc' = "sampled"
    /\ UNCHANGED <<h, J, model, energies_low, energies_high>>
    /\ UNCHANGED notIsing

IsingInit ==
    /\ t_pc = "start" /\ h = None /\ J = None /\ model = None
    /\ energies_low = None /\ energies_high = None
    /\ GateIdle /\ QaoaIdle /\ PrepIdle

\* Exercise 1 with the draws as inputs.
ModelNext == Exercise1AnyDraws \/ GradeExercise1
SpecModel == IsingInit /\ [][ModelNext]_vars

\* Exercises 1 and 2 as the notebook runs them.
SampleNext ==
    \/ Exercise1 \/ GradeExercise1 \/ StartSampling \/ ReadLow \/ StartHigh
    \/ ReadHigh \/ EndSampling
SpecSample == IsingInit /\ [][SampleNext]_vars

min(seq) == CHOOSE e \in {seq[k] : k \in 1 .. Len(seq)} :
                \A k \in 1 .. Len(seq) : e <= seq[k]
max(seq) == CHOOSE e \in {seq[k] : k \in 1 .. Len(seq)} :
                \A k \in 1 .. Len(seq) : e >= seq[k]

\* C1: after sampling at temperature 0.01 every sampled energy is the same value:
\* min(energies_low) equals max(energies_low).
C1_OneEnergyAtLowTemperature ==
    t_pc = "sampled" => min(energies_low) = max(energies_low)

\* C2: the ground state appears at both temperatures: min(energies_low) equals
\* min(energies_high) in every run of the two sampling calls.
C2_GroundStateAtBothTemperatures ==
    t_pc = "sampled" => min(energies_low) = min(energies_high)

\* C9: whatever the random draws, the model of exercise 1 is a spin model with
\* exactly 5 variables, the spins 0 .. 4.
C9_SpinModelOfFiveSpins ==
    t_pc \in {"model", "graded1", "AssertionError"} =>
        /\ model.vartype = "SPIN"
        /\ model.variables = 0 .. 4
        /\ Cardinality(model.variables) = 5
        /\ t_pc # "AssertionError"

\* A model with a coupling has passed the asserts of exercise 1.
C9_Witness ==
    /\ t_pc = "graded1"
    /\ DOMAIN J # {}
    /\ \E v \in DOMAIN h : h[v] # 0

----------------------------------------------------------------------------
(* 08_Sampling_a_Thermal_State, exercise 3                                  *)

\* The largest n_qubits and the largest beta of the state preparation.
MaxPrepQubits == 4
MaxBeta == 4

\* alpha = 2 * np.arctan(np.exp(- beta)), kept as the expression it is.
alpha_of(b) == [two_arctan_exp |-> -b]

\* circuit.rx(alpha, qr[n_qubits+i])
rx_of(a, n, i) == [gate |-> "rx", theta |-> a, q |-> <<n + i>>]

\* cx_of with a slip: the control and the target exchanged.
cx_of_swapped(n, i) == [gate |-> "cx", q |-> <<i, n + i>>]

\* circuit.cx(qr[n_qubits+i], qr[i])
cx_of(n, i) == [gate |-> "cx", q |-> <<n + i, i>>]

\* n_qubits = 1; beta = 0; def prepare_init_circuit(beta): ...
\* The number of qubits is an input here: 1 .. MaxPrepQubits.
PrepDefine ==
    /\ x_pc = "start"
    /\ x_n_qubits' \in 1 .. MaxPrepQubits
    /\ x_pc' = "defined"
    /\ UNCHANGED <<x_beta, x_circuit, x_i>>
    /\ UNCHANGED notPrep
    /\ UNCHANGED <<dm, traced>>

\* circuit = prepare_init_circuit(0), with beta an input: the call enters the
\* function.  qr = QuantumRegister(n_qubits*2); circuit = QuantumCircuit(qr)
PrepCall ==
    /\ x_pc = "defined"
    /\ x_beta' \in 0 .. MaxBeta
    /\ x_circuit' = [qubits |-> x_n_qubits * 2, data |-> <<>>]
    /\ x_i' = 0
    /\ x_pc' = "rx"
    /\ UNCHANGED x_n_qubits
    /\ UNCHANGED notPrep
    /\ UNCHANGED <<dm, traced>>

\* for i in range(n_qubits): circuit.rx(alpha, qr[n_qubits+i])
PrepRx ==
    /\ x_pc = "rx"
    /\ x_i < x_n_qubits
    /\ x_circuit' = [x_circuit EXCEPT
          !.data = Append(@, rx_of(alpha_of(x_beta), x_n_qubits, x_i))]
    /\ x_pc' = "cx"
    /\ UNCHANGED <<x_n_qubits, x_beta, x_i>>
    /\ UNCHANGED notPrep
    /\ UNCHANGED <<dm, traced>>

\* circuit.cx(qr[n_qubits+i], qr[i]), and the next i
PrepCx ==
    /\ x_pc = "cx"
    /\ x_circuit' = [x_circuit EXCEPT !.data = Append(@, cx_of(x_n_qubits, x_i))]
    /\ x_i' = x_i + 1
    /\ x_pc' = "rx"
    /\ UNCHANGED <<x_n_qubits, x_beta>>
    /\ UNCHANGED notPrep
    /\ UNCHANGED <<dm, traced>>

\* return circuit
PrepReturn ==
    /\ x_pc = "rx"
    /\ x_i = x_n_qubits
    /\ x_pc' = "returned"
    /\ UNCHANGED <<x_n_qubits, x_beta, x_circuit, x_i>>
    /\ UNCHANGED notPrep
    /\ UNCHANGED <<dm, traced>>

PrepInit ==
    /\ x_pc = "start" /\ x_n_qubits = 0 /\ x_beta = 0 /\ x_circuit = None /\ x_i = 0
    /\ dm = None /\ traced = None
    /\ GateIdle /\ QaoaIdle /\ IsingIdle

PrepNext == PrepDefine \/ PrepCall \/ PrepRx \/ PrepCx \/ PrepReturn
SpecPrep == PrepInit /\ [][PrepNext]_vars

GatesNamed(name) == {k \in 1 .. Len(x_circuit.data) : x_circuit.data[k].gate = name}

\* C10: prepare_init_circuit(beta) acts on 2*n_qubits qubits and holds exactly
\* n_qubits RX gates and n_qubits CX gates and nothing else; for each i the RX on
\* qubit n_qubits+i comes before the CX with control n_qubits+i and target i.
C10_RxThenCx ==
    x_pc = "returned" =>
        /\ x_circuit.qubits = 2 * x_n_qubits
        /\ Cardinality(GatesNamed("rx")) = x_n_qubits
        /\ Cardinality(GatesNamed("cx")) = x_n_qubits
        /\ Len(x_circuit.data) = 2 * x_n_qubits
        /\ \A i \in range(x_n_qubits) :
              \E a \in GatesNamed("rx") : \E b \in GatesNamed("cx") :
                 /\ a < b
                 /\ x_circuit.data[a].q = <<x_n_qubits + i>>
                 /\ x_circuit.data[b].q = <<x_n_qubits + i, i>>

\* A preparation over more than one system qubit, at a beta other than 0.
C10_Witness ==
    /\ x_pc = "returned"
    /\ x_n_qubits >= 2
    /\ x_beta > 0
    /\ Len(x_circuit.data) = 2 * x_n_qubits

-----------------------------------------------------------------------------
(* 08_Sampling_a_Thermal_State, exercise 4                                  *)

\* The largest n_qubits whose density matrix is computed.
MaxDmQubits == 2

\* Numbers.  With alpha = 2*arctan(exp(-beta)) the gate RX(alpha) is
\* cos(alpha/2) * [[1, -i*u^beta], [-i*u^beta, 1]] with u = exp(-1), so every
\* amplitude is, up to a positive factor common to the whole vector, a
\* polynomial in u with Gaussian integer coefficients.  A number is the
\* function from the degrees of its non-zero terms to their coefficients
\* <<re, im>>; u is transcendental, so two numbers are equal exactly when
\* these functions are.
GZero == <<0, 0>>
GAdd(a, b) == <<a[1] + b[1], a[2] + b[2]>>
GMul(a, b) == <<a[1] * b[1] - a[2] * b[2], a[1] * b[2] + a[2] * b[1]>>

RECURSIVE GSum(_, _)
GSum(f, S) ==
    IF S = {} THEN GZero
    ELSE LET k == CHOOSE k \in S : TRUE IN GAdd(f[k], GSum(f, S \ {k}))

PZero == [k \in {} |-> GZero]
POne == [k \in {0} |-> <<1, 0>>]
PCoeff(a, k) == IF k \in DOMAIN a THEN a[k] ELSE GZero
PAdd(a, b) ==
    LET c == Once([k \in DOMAIN a \cup DOMAIN b |-> GAdd(PCoeff(a, k), PCoeff(b, k))])
    IN  Once([k \in {k \in DOMAIN c : c[k] # GZero} |-> c[k]])
PMul(a, b) ==
    LET degs == {i + j : i \in DOMAIN a, j \in DOMAIN b}
        c == Once([k \in degs |->
                LET I == {i \in DOMAIN a : (k - i) \in DOMAIN b}
                IN  GSum([i \in I |-> GMul(a[i], b[k - i])], I)])
    IN  Once([k \in {k \in degs : c[k] # GZero} |-> c[k]])
PConj(a) == Once([k \in DOMAIN a |-> <<a[k][1], 0 - a[k][2]>>])

\* f[lo] + ... + f[hi - 1], by halves
RECURSIVE PSum(_, _, _)
PSum(f, lo, hi) ==
    IF hi <= lo THEN PZero
    ELSE IF hi = lo + 1 THEN f[lo]
    ELSE PAdd(PSum(f, lo, (lo + hi) \div 2), PSum(f, (lo + hi) \div 2, hi))

\* -i * tan(theta/2) for theta = 2*arctan(exp(e)), e = -beta: -i * u^beta
MinusITanHalf(theta) == [k \in {0 - theta.two_arctan_exp} |-> <<0, -1>>]

\* The gate RX(theta) on qubit k, without its factor cos(theta/2).
ApplyRX(psi, k, theta) ==
    Once([b \in DOMAIN psi |->
        IF BitOf(b, k) = 0
        THEN PAdd(psi[b], PMul(MinusITanHalf(theta), psi[SetBit(b, k, 1)]))
        ELSE PAdd(PMul(MinusITanHalf(theta), psi[SetBit(b, k, 0)]), psi[b])])

ApplyGate(psi, g) ==
    IF g.gate = "rx" THEN ApplyRX(psi, g.q[1], g.theta)
    ELSE Once(ApplyCX(psi, g.q[1], g.q[2]))

\* (A state vector is never empty: the test makes the vector after one gate
\* known before the next gate is applied.)
RECURSIVE RunGates(_, _)
RunGates(psi, data) ==
    IF data = <<>> THEN psi
    ELSE LET next == ApplyGate(psi, Head(data))
         IN  IF DOMAIN next = {} THEN next ELSE RunGates(next, Tail(data))

\* CircuitStateFn(circuit): the state the circuit makes of |0...0>, qubit 0
\* the least significant bit of the index, up to its positive norm.
CircuitStateFn(c) ==
    RunGates([b \in Basis(c.qubits) |-> IF b = 0 THEN POne ELSE PZero], c.data)

\* .to_density_matrix(): |psi><psi|.  The entries are num[a][b] / den, den
\* the squared norm of the vector.
to_density_matrix(psi) ==
    [num |-> [a \in DOMAIN psi |-> [b \in DOMAIN psi |->
                 PMul(psi[a], PConj(psi[b]))]],
     den |-> PSum([b \in DOMAIN psi |-> PMul(psi[b], PConj(psi[b]))],
                  0, Cardinality(DOMAIN psi))]

\* The index of the whole register from the index a of the qubits kept and
\* the value m of the qubit k traced out.
InsertBit(a, k, m) == (a \div Pow2(k)) * Pow2(k + 1) + m * Pow2(k) + (a % Pow2(k))
NumQubits(rho) == CHOOSE n \in 0 .. 2 * (MaxDmQubits + 1) : DOMAIN rho.num = Basis(n)

\* partial_trace with a slip: only the block where the qubit traced out is 0
\* is kept, the block where it is 1 is not added.
partial_trace_no_sum(rho, k) ==
    [num |-> [a \in Basis(NumQubits(rho) - 1) |-> [b \in Basis(NumQubits(rho) - 1) |->
                 rho.num[InsertBit(a, k, 0)][InsertBit(b, k, 0)]]],
     den |-> rho.den]

\* partial_trace(dm, [k]): the density matrix of the other qubits.
partial_trace(rho, k) ==
    [num |-> [a \in Basis(NumQubits(rho) - 1) |-> [b \in Basis(NumQubits(rho) - 1) |->
                 PAdd(rho.num[InsertBit(a, k, 0)][InsertBit(b, k, 0)],
                      rho.num[InsertBit(a, k, 1)][InsertBit(b, k, 1)])]],
     den |-> rho.den]

\* dm = CircuitStateFn(circuit).to_density_matrix()
DensityMatrix ==
    /\ x_pc = "returned"
    /\ x_n_qubits <= MaxDmQubits
    /\ dm' = to_density_matrix(CircuitStateFn(x_circuit))
    /\ x_pc' = "dm"
    /\ UNCHANGED <<x_n_qubits, x_beta, x_circuit, x_i, traced>>
    /\ UNCHANGED notPrep

\* partial_trace(dm, [1])
PartialTrace ==
    /\ x_pc = "dm"
    /\ traced' = partial_trace(dm, 1)
    /\ x_pc' = "traced"
    /\ UNCHANGED <<x_n_qubits, x_beta, x_circuit, x_i, dm>>
    /\ UNCHANGED notPrep

ThermalNext ==
    \/ PrepDefine \/ PrepCall \/ PrepRx \/ PrepCx \/ PrepReturn
    \/ DensityMatrix \/ PartialTrace
SpecThermal == PrepInit /\ [][ThermalNext]_vars

\* The entry rho[a][b] is the rational number n / d, n and d integers.
EntryIs(rho, a, b, n, d) ==
    PMul([k \in {0} |-> <<d, 0>>], rho.num[a][b]) =
        PMul([k \in {k \in {0} : n # 0} |-> <<n, 0>>], rho.den)

\* C11: for one system qubit and beta = 0, tracing qubit 1 (the ancilla) out of
\* the density matrix of the prepared state leaves the maximally mixed state
\* on the system qubit: both diagonal entries 1/2, both off-diagonal entries 0.
C11_MaximallyMixed ==
    (x_pc = "traced" /\ x_n_qubits = 1 /\ x_beta = 0) =>
        /\ DOMAIN traced.num = 0 .. 1
        /\ EntryIs(traced, 0, 0, 1, 2)
        /\ EntryIs(traced, 1, 1, 1, 2)
        /\ EntryIs(traced, 0, 1, 0, 1)
        /\ EntryIs(traced, 1, 0, 0, 1)

\* The run of the notebook: one system qubit, beta = 0, the state
\* (|00> - i|11>) / sqrt 2 and its density matrix with the entries 0.5 and
\* +-0.5i the notebook displays, and the partial trace taken.
C11_Witness ==
    /\ x_pc = "traced"
    /\ x_n_qubits = 1
    /\ x_beta = 0
    /\ EntryIs(dm, 0, 0, 1, 2)
    /\ EntryIs(dm, 3, 3, 1, 2)
    /\ dm.num[0][3] = [k \in {0} |-> <<0, 1>>]
    /\ dm.num[3][0] = [k \in {0} |-> <<0, -1>>]
    /\ dm.den = [k \in {0} |-> <<2, 0>>]
    /\ traced.den = dm.den

-----------------------------------------------------------------------------
(* 07_Variational_Circuits: the optimisation of the angles                  *)

\* Hc is diagonal: the energy of the basis state b, and the lowest of them.
Energy(b) == IntSum([k \in 0 .. (Len(Hc) - 1) |->
                        Hc[k + 1].coeff * SignBits(b, Hc[k + 1].pauli.z)], Len(Hc))
LowestEnergy == CHOOSE e \in {Energy(b) : b \in Basis(n_qubits)} :
                    \A b \in Basis(n_qubits) : e <= Energy(b)
Optimising == q_pc \in {"minimizing", "result"}
StartValue == evaluate_value(evaluate_circuit(concatenate(beta, gamma)))
AtLeast(u, v) == Compare(u, v) \in {0, 1}

====
